---- MODULE Spec2Model ----
(***************************************************************************)
(* Model of the blacklist policy store, the activity log store and the     *)
(* enforcement engine of src-tauri/src/lib.rs.                             *)
(*                                                                         *)
(* Conventions.  A Rust String that the code inspects character by         *)
(* character (process names, blacklist names) is a sequence of             *)
(* one-character strings; a String that is only produced (a reason, a      *)
(* message) is a TLA+ string.  An f32 percentage is an integer number of   *)
(* percent.  A timestamp string is the value the clock returned.           *)
(***************************************************************************)
EXTENDS Integers, Sequences, FiniteSets, TLC

VARIABLES
    app_state,   \* APP_STATE: None, or Some([blacklist, activity_logs])
    disk,        \* content of blacklist_data.json: NoFile, or an AppState
    ret,         \* the value returned by the last command
    sys,         \* the process snapshot taken by the last enforcement pass
    attempts,    \* the terminations the last enforcement pass attempted
    lock,        \* the thread that holds the APP_STATE mutex, 0 when it is free
    threads,     \* for each thread, the command it is running and where it is
    os,          \* the processes alive in the operating system
    call,        \* the last command called, with its arguments
    gpu_monitor, \* GPU_MONITOR: the mutex's owner (0 when free) and its value
    pdh          \* the number of PDH queries opened so far

vars == <<app_state, disk, ret, sys, attempts, lock, threads, os, call,
          gpu_monitor, pdh>>

\* the GPU monitor and the PDH queries, which the blacklist and log commands
\* do not touch
gpu_vars == <<gpu_monitor, pdh>>

(***************************************************************************)
(* Strings                                                                 *)
(***************************************************************************)

UpperCase == <<"A", "B", "C", "D", "E", "F", "G", "H", "I", "J", "K", "L", "M",
               "N", "O", "P", "Q", "R", "S", "T", "U", "V", "W", "X", "Y", "Z">>

LowerCase == <<"a", "b", "c", "d", "e", "f", "g", "h", "i", "j", "k", "l", "m",
               "n", "o", "p", "q", "r", "s", "t", "u", "v", "w", "x", "y", "z">>

Whitespace == {" ", "\t", "\n"}

\* char::to_lowercase
to_lowercase_char(c) ==
    IF \E i \in DOMAIN UpperCase : UpperCase[i] = c
    THEN LowerCase[CHOOSE i \in DOMAIN UpperCase : UpperCase[i] = c]
    ELSE c

\* str::to_lowercase
to_lowercase(s) == [i \in 1..Len(s) |-> to_lowercase_char(s[i])]

RECURSIVE trim_start(_)
trim_start(s) ==
    IF s # <<>> /\ s[1] \in Whitespace THEN trim_start(Tail(s)) ELSE s

RECURSIVE trim_end(_)
trim_end(s) ==
    IF s # <<>> /\ s[Len(s)] \in Whitespace
    THEN trim_end(SubSeq(s, 1, Len(s) - 1))
    ELSE s

\* str::trim
trim(s) == trim_end(trim_start(s))

\* str::contains: the pattern occurs as a contiguous run (the empty pattern
\* occurs in every string)
contains(s, pat) ==
    \E i \in 0..(Len(s) - Len(pat)) : SubSeq(s, i + 1, i + Len(pat)) = pat

\* the match arms of resolve_process_name: <<alias, canonical name>>
Aliases ==
    { << <<"e","d","g","e">>, <<"m","s","e","d","g","e">> >>,
      << <<"m","i","c","r","o","s","o","f","t"," ","e","d","g","e">>,
         <<"m","s","e","d","g","e">> >>,
      << <<"m","s","e","d","g","e">>, <<"m","s","e","d","g","e">> >>,
      << <<"c","h","r","o","m","e">>, <<"c","h","r","o","m","e">> >>,
      << <<"g","o","o","g","l","e"," ","c","h","r","o","m","e">>,
         <<"c","h","r","o","m","e">> >>,
      << <<"c","o","d","e">>, <<"c","o","d","e">> >>,
      << <<"v","s","c","o","d","e">>, <<"c","o","d","e">> >>,
      << <<"v","s"," ","c","o","d","e">>, <<"c","o","d","e">> >>,
      << <<"c","a","l","c">>, <<"c","a","l","c","u","l","a","t","o","r">> >>,
      << <<"c","a","l","c","u","l","a","t","o","r">>,
         <<"c","a","l","c","u","l","a","t","o","r">> >>,
      << <<"n","o","t","e","p","a","d">>, <<"n","o","t","e","p","a","d">> >>,
      << <<"t","a","s","k"," ","m","a","n","a","g","e","r">>,
         <<"t","a","s","k","m","g","r">> >>,
      << <<"t","a","s","k","m","g","r">>, <<"t","a","s","k","m","g","r">> >>,
      << <<"c","m","d">>, <<"c","m","d">> >>,
      << <<"c","o","m","m","a","n","d"," ","p","r","o","m","p","t">>,
         <<"c","m","d">> >>,
      << <<"p","o","w","e","r","s","h","e","l","l">>,
         <<"p","o","w","e","r","s","h","e","l","l">> >> }

resolve_process_name(input) ==
    LET s == to_lowercase(trim(input))
    IN  IF \E a \in Aliases : a[1] = s
        THEN (CHOOSE a \in Aliases : a[1] = s)[2]
        ELSE s

(***************************************************************************)
(* AppState, its lazy load and its save                                    *)
(***************************************************************************)

None == [none |-> TRUE]

NoFile == [exists |-> FALSE]

\* AppState::default()
DefaultAppState == [blacklist |-> <<>>, activity_logs |-> <<>>]

\* load_state: the file's AppState, or the default when there is no file
load_state == IF disk = NoFile THEN DefaultAppState ELSE disk

\* save_state: the write may fail, and the failure is ignored
save_state(state, write_ok) == IF write_ok THEN state ELSE disk

\* the AppState a closure run by with_state works on
State == IF app_state = None THEN load_state ELSE app_state

\* with_state: the closure turned State into `state` and returned `result`
with_state(state, result, write_ok) ==
    /\ app_state' = state
    /\ disk' = save_state(state, write_ok)
    /\ ret' = result

\* the blacklist and the activity log as a command finds them
Blacklist == State.blacklist

ActivityLogs == State.activity_logs

\* a command that takes no process snapshot and terminates nothing
NoSnapshot == [cpus |-> 0, processes |-> <<>>]

NoPass == sys' = NoSnapshot /\ attempts' = <<>>

(***************************************************************************)
(* Blacklist commands                                                      *)
(***************************************************************************)

Ok(op, v) == [op |-> op, ok |-> TRUE, value |-> v]

Err(op, msg) == [op |-> op, ok |-> FALSE, error |-> msg]

\* e.name.to_lowercase() == name.to_lowercase()
SameName(e, name) == to_lowercase(e.name) = to_lowercase(name)

\* the loop with a comparison that does not ignore case
RECURSIVE FindEntryExact(_, _, _)
FindEntryExact(bl, name, i) ==
    IF i > Len(bl) THEN 0
    ELSE IF bl[i].name = name THEN i
    ELSE FindEntryExact(bl, name, i + 1)

\* the entry a `for entry in state.blacklist.iter_mut()` loop stops at: the
\* first one whose name matches, 0 when the loop runs to its end
RECURSIVE FindEntry(_, _, _)
FindEntry(bl, name, i) ==
    IF i > Len(bl) THEN 0
    ELSE IF SameName(bl[i], name) THEN i
    ELSE FindEntry(bl, name, i + 1)

get_blacklist(write_ok) ==
    /\ with_state(State, Ok("get_blacklist", Blacklist), write_ok)
    /\ NoPass

NewEntry(name, auto_kill, cpu_threshold, now) ==
    [ name          |-> name,
      auto_kill     |-> auto_kill,
      cpu_threshold |-> cpu_threshold,
      log_enabled   |-> TRUE,
      created_at    |-> now,
      kill_count    |-> 0 ]

\* add_to_blacklist without its "Already in blacklist" check
add_to_blacklist_unchecked(input, auto_kill, cpu_threshold, now, write_ok) ==
    LET name == resolve_process_name(input)
    IN  /\ IF name = <<>>
           THEN /\ ret' = Err("add_to_blacklist", "Name cannot be empty")
                /\ UNCHANGED <<app_state, disk>>
           ELSE with_state(
                    [State EXCEPT !.blacklist =
                        Append(@, NewEntry(name, auto_kill, cpu_threshold, now))],
                    Ok("add_to_blacklist", name \o <<" added to blacklist">>),
                    write_ok)
        /\ NoPass

\* add_to_blacklist without its "Name cannot be empty" check
add_to_blacklist_unnamed(input, auto_kill, cpu_threshold, now, write_ok) ==
    LET name == resolve_process_name(input)
    IN  /\ IF \E i \in DOMAIN Blacklist : SameName(Blacklist[i], name)
           THEN with_state(State,
                           Err("add_to_blacklist", "Already in blacklist"),
                           write_ok)
           ELSE with_state(
                    [State EXCEPT !.blacklist =
                        Append(@, NewEntry(name, auto_kill, cpu_threshold, now))],
                    Ok("add_to_blacklist", name \o <<" added to blacklist">>),
                    write_ok)
        /\ NoPass

add_to_blacklist(input, auto_kill, cpu_threshold, now, write_ok) ==
    LET name == resolve_process_name(input)
    IN  /\ IF name = <<>>
           THEN /\ ret' = Err("add_to_blacklist", "Name cannot be empty")
                /\ UNCHANGED <<app_state, disk>>
           ELSE IF \E i \in DOMAIN Blacklist : SameName(Blacklist[i], name)
           THEN with_state(State,
                           Err("add_to_blacklist", "Already in blacklist"),
                           write_ok)
           ELSE with_state(
                    [State EXCEPT !.blacklist =
                        Append(@, NewEntry(name, auto_kill, cpu_threshold, now))],
                    Ok("add_to_blacklist", name \o <<" added to blacklist">>),
                    write_ok)
        /\ NoPass

remove_from_blacklist(name, write_ok) ==
    LET kept == SelectSeq(Blacklist, LAMBDA e : ~SameName(e, name))
    IN  /\ with_state(
               [State EXCEPT !.blacklist = kept],
               IF Len(kept) < Len(Blacklist)
               THEN Ok("remove_from_blacklist",
                       name \o <<" removed from blacklist">>)
               ELSE Err("remove_from_blacklist", "Not found in blacklist"),
               write_ok)
        /\ NoPass

toggle_auto_kill(name, write_ok) ==
    LET i == FindEntry(Blacklist, name, 1)
    IN  /\ IF i = 0
           THEN with_state(State,
                           Err("toggle_auto_kill", "Not found in blacklist"),
                           write_ok)
           ELSE with_state(
                    [State EXCEPT !.blacklist[i].auto_kill = ~@],
                    Ok("toggle_auto_kill", ~Blacklist[i].auto_kill),
                    write_ok)
        /\ NoPass

toggle_blacklist_log(name, write_ok) ==
    LET i == FindEntry(Blacklist, name, 1)
    IN  /\ IF i = 0
           THEN with_state(State,
                           Err("toggle_blacklist_log", "Not found in blacklist"),
                           write_ok)
           ELSE with_state(
                    [State EXCEPT !.blacklist[i].log_enabled = ~@],
                    Ok("toggle_blacklist_log", ~Blacklist[i].log_enabled),
                    write_ok)
        /\ NoPass

Max(a, b) == IF a >= b THEN a ELSE b

Min(a, b) == IF a <= b THEN a ELSE b

\* a clamp without its upper bound
ClampBelow(threshold) == Max(threshold, 0)

\* threshold.max(0.0).min(100.0)
ClampThreshold(threshold) == Min(Max(threshold, 0), 100)

set_cpu_threshold(name, threshold, write_ok) ==
    LET i == FindEntry(Blacklist, name, 1)
    IN  /\ IF i = 0
           THEN with_state(State,
                           Err("set_cpu_threshold", "Not found in blacklist"),
                           write_ok)
           ELSE with_state(
                    [State EXCEPT !.blacklist[i].cpu_threshold =
                                      ClampThreshold(threshold)],
                    Ok("set_cpu_threshold", ClampThreshold(threshold)),
                    write_ok)
        /\ NoPass

(***************************************************************************)
(* Activity log commands                                                   *)
(***************************************************************************)

\* a reverse that leaves the vector as it is
Unreversed(s) == s

\* Vec::reverse
Reverse(s) == [i \in 1..Len(s) |-> s[Len(s) + 1 - i]]

\* Vec::truncate
Truncate(s, n) == IF Len(s) > n THEN SubSeq(s, 1, n) ELSE s

\* the number of log entries get_activity_logs returns at most
RecentLimit == 100

get_activity_logs(write_ok) ==
    /\ with_state(State,
                  Ok("get_activity_logs",
                     Truncate(Reverse(ActivityLogs), RecentLimit)),
                  write_ok)
    /\ NoPass

clear_activity_logs(write_ok) ==
    /\ with_state([State EXCEPT !.activity_logs = <<>>],
                  Ok("clear_activity_logs", "Logs cleared"),
                  write_ok)
    /\ NoPass

(***************************************************************************)
(* The enforcement pass                                                    *)
(*                                                                         *)
(* A snapshot is [cpus, processes]; a process is                           *)
(*   [pid, name, cpu_usage, term, kill]                                    *)
(* where term is what kill_with(Signal::Term) would return ("unsupported"  *)
(* for None, "ok" for Some(true), "failed" for Some(false)) and kill is    *)
(* what kill() would return.                                               *)
(***************************************************************************)

\* the number of entries the activity log is cut back to
LogCap == 1000

\* sys.cpus().len(), 1 when no core is reported
cpu_count(s) == IF s.cpus > 0 THEN s.cpus ELSE 1

\* p.cpu_usage() / cpu_count
normalized_cpu(p, s) == p.cpu_usage \div cpu_count(s)

\* the (name, auto_kill, cpu_threshold, log_enabled) tuples copied out of the
\* blacklist before the loop
blacklist_info(bl) ==
    [j \in 1..Len(bl) |->
        [ bl_name       |-> to_lowercase(bl[j].name),
          auto_kill     |-> bl[j].auto_kill,
          cpu_threshold |-> bl[j].cpu_threshold,
          log_enabled   |-> bl[j].log_enabled ]]

\* pname.contains(bl_name) || bl_name == &pname
Matches(pname, bl_name) == contains(pname, bl_name) \/ bl_name = pname

\* the inner loop without its break: the last tuple that matches
RECURSIVE LastMatch(_, _, _)
LastMatch(info, pname, j) ==
    IF j > Len(info) THEN 0
    ELSE LET later == LastMatch(info, pname, j + 1)
         IN  IF later # 0 THEN later
             ELSE IF Matches(pname, info[j].bl_name) THEN j
             ELSE 0

\* the inner loop with its break: the first tuple that matches, 0 when none
RECURSIVE FirstMatch(_, _, _)
FirstMatch(info, pname, j) ==
    IF j > Len(info) THEN 0
    ELSE IF Matches(pname, info[j].bl_name) THEN j
    ELSE FirstMatch(info, pname, j + 1)

\* should_kill with a strict comparison
should_kill_strict(rule, process_cpu) ==
    rule.auto_kill /\ (rule.cpu_threshold <= 0 \/ process_cpu > rule.cpu_threshold)

\* should_kill that does not look at auto_kill
should_kill_any(rule, process_cpu) ==
    rule.cpu_threshold <= 0 \/ process_cpu >= rule.cpu_threshold

\* should_kill that kills only under a logging rule
should_kill_logged(rule, process_cpu) ==
    /\ rule.log_enabled
    /\ rule.auto_kill
    /\ (rule.cpu_threshold <= 0 \/ process_cpu >= rule.cpu_threshold)

should_kill(rule, process_cpu) ==
    rule.auto_kill /\ (rule.cpu_threshold <= 0 \/ process_cpu >= rule.cpu_threshold)

\* p.kill_with(Signal::Term).unwrap_or(false) || p.kill()
KillProcess(p) == (p.term = "ok") \/ p.kill

\* format!("{:.1}", x) and format!("{:.0}", x) of a whole number
Fmt1(x) == ToString(x) \o ".0"

Fmt0(x) == ToString(x)

\* (was_killed, reason)
Outcome(rule, p, process_cpu) ==
    IF should_kill(rule, process_cpu)
    THEN IF KillProcess(p)
         THEN [ was_killed |-> TRUE,
                reason |-> "Killed (CPU: " \o Fmt1(process_cpu) \o "%)" ]
         ELSE [ was_killed |-> FALSE, reason |-> "Kill failed (no permission)" ]
    ELSE IF rule.auto_kill /\ process_cpu < rule.cpu_threshold
    THEN [ was_killed |-> FALSE,
           reason |-> "CPU " \o Fmt1(process_cpu) \o "% < threshold "
                             \o Fmt0(rule.cpu_threshold) \o "%" ]
    ELSE [ was_killed |-> FALSE, reason |-> "Detected" ]

\* state.blacklist.iter_mut().find(|e| e.name.to_lowercase() == *bl_name),
\* and entry.kill_count += 1 when there is one
RECURSIVE FindLower(_, _, _)
FindLower(bl, bl_name, i) ==
    IF i > Len(bl) THEN 0
    ELSE IF to_lowercase(bl[i].name) = bl_name THEN i
    ELSE FindLower(bl, bl_name, i + 1)

\* an increment that also disarms the rule
IncrementAndDisarm(bl, bl_name) ==
    LET i == FindLower(bl, bl_name, 1)
    IN  IF i = 0 THEN bl
        ELSE [bl EXCEPT ![i].kill_count = @ + 1, ![i].auto_kill = FALSE]

\* the increment applied to the first entry instead of the one found
IncrementFirstEntry(bl, bl_name) ==
    IF bl = <<>> THEN bl ELSE [bl EXCEPT ![1].kill_count = @ + 1]

IncrementKillCount(bl, bl_name) ==
    LET i == FindLower(bl, bl_name, 1)
    IN  IF i = 0 THEN bl ELSE [bl EXCEPT ![i].kill_count = @ + 1]

\* one iteration of `for (pid, p) in sys.processes().iter()`; acc holds
\* state.blacklist, state.activity_logs, new_logs and the terminations attempted
ProcessStep(acc, info, s, now, k) ==
    LET p           == s.processes[k]
        pname       == to_lowercase(p.name)
        process_cpu == normalized_cpu(p, s)
        j           == FirstMatch(info, pname, 1)
        out         == Outcome(info[j], p, process_cpu)
        log         == [ name       |-> p.name,
                         pid        |-> p.pid,
                         cpu_usage  |-> process_cpu,
                         detected_at |-> now,
                         was_killed |-> out.was_killed,
                         reason     |-> out.reason ]
    IN  IF j = 0 THEN acc
        ELSE [ blacklist |->
                   IF out.was_killed
                   THEN IncrementKillCount(acc.blacklist, info[j].bl_name)
                   ELSE acc.blacklist,
               activity_logs |->
                   IF info[j].log_enabled
                   THEN Append(acc.activity_logs, log)
                   ELSE acc.activity_logs,
               new_logs |->
                   IF info[j].log_enabled
                   THEN Append(acc.new_logs, log)
                   ELSE acc.new_logs,
               attempts |->
                   IF should_kill(info[j], process_cpu)
                   THEN Append(acc.attempts,
                               [pid |-> p.pid, rule |-> j, killed |-> out.was_killed])
                   ELSE acc.attempts ]

\* the loop over processes lo..hi of the snapshot, in order.  It is evaluated
\* in two halves, the first half before the second, which keeps the nesting of
\* the evaluation logarithmic in the number of processes.
RECURSIVE ForEachProcess(_, _, _, _, _, _)
ForEachProcess(acc, info, s, now, lo, hi) ==
    IF lo > hi THEN acc
    ELSE IF lo = hi THEN ProcessStep(acc, info, s, now, lo)
    ELSE LET mid   == (lo + hi) \div 2
             first == ForEachProcess(acc, info, s, now, lo, mid)
         IN  IF Len(first.activity_logs) >= 0
             THEN ForEachProcess(first, info, s, now, mid + 1, hi)
             ELSE first

\* split_off that keeps one element too many
split_off_early(v, at) == SubSeq(v, at, Len(v))

\* Vec::split_off(at): the elements from index `at` on
split_off(v, at) == SubSeq(v, at + 1, Len(v))

\* the cut that keeps the oldest entries instead of the newest
KeepFirst(logs) == IF Len(logs) > LogCap THEN SubSeq(logs, 1, LogCap) ELSE logs

\* "Keep only last 1000 logs"
KeepLast(logs) ==
    IF Len(logs) > LogCap THEN split_off(logs, Len(logs) - LogCap) ELSE logs

\* the closure of check_and_kill_blacklist run on `state` with snapshot s
EnforcePass(state, s, now) ==
    LET r == ForEachProcess(
                 [ blacklist     |-> state.blacklist,
                   activity_logs |-> state.activity_logs,
                   new_logs      |-> <<>>,
                   attempts      |-> <<>> ],
                 blacklist_info(state.blacklist), s, now,
                 1, Len(s.processes))
    IN  [r EXCEPT !.activity_logs = KeepLast(@)]

check_and_kill_blacklist(s, now, write_ok) ==
    LET r == EnforcePass(State, s, now)
    IN  /\ with_state(
               [blacklist |-> r.blacklist, activity_logs |-> r.activity_logs],
               Ok("check_and_kill_blacklist", r.new_logs),
               write_ok)
        /\ sys' = s
        /\ attempts' = r.attempts

(***************************************************************************)
(* The commands run one at a time, from an empty AppState                  *)
(***************************************************************************)

MaxEntries == 2     \* add_to_blacklist is called while the blacklist is shorter
MaxKills   == 2     \* a pass runs while it leaves every kill_count within this
MaxLogs    == 0     \* a pass runs while the activity log is no longer than this
MaxProcs   == 2     \* the processes in one snapshot

AddNames == { <<"a">>, <<"A">>, <<"a", "b">>, <<" ">> }

RemoveNames == { <<"A">>, <<"a", "b">> }

LookupNames == { <<"A">> }

AddThresholds == { 0, 150 }

SetThresholds == { -10, 50 }

Times == { 1 }

WriteOutcomes == { TRUE }

Processes ==
    { [pid |-> 1, name |-> <<"A", "b">>, cpu_usage |-> c, term |-> o[1], kill |-> o[2]] :
          c \in {40, 100}, o \in { <<"unsupported", TRUE>>, <<"failed", FALSE>> } }
    \cup { [pid |-> 2, name |-> <<"a">>, cpu_usage |-> 100, term |-> "ok", kill |-> FALSE] }

\* the snapshots: at most MaxProcs processes with distinct pids, in any order
RECURSIVE SeqsUpTo(_, _)
SeqsUpTo(S, n) ==
    IF n = 0 THEN { <<>> }
    ELSE LET shorter == SeqsUpTo(S, n - 1)
         IN  shorter \cup { Append(q, x) : q \in shorter, x \in S }

Snapshots ==
    { [cpus |-> 2, processes |-> ps] :
        ps \in { q \in SeqsUpTo(Processes, MaxProcs) :
                   \A i, j \in DOMAIN q : i # j => q[i].pid # q[j].pid } }

Pass == "check_and_kill_blacklist"

NumThreads == 2     \* the threads that call commands

Threads == 1..NumThreads

Idle == [pc |-> "idle"]

\* the processes alive when the application starts
LiveProcesses ==
    { [pid |-> 1, name |-> <<"a">>, cpu_usage |-> 100,
       term |-> "unsupported", kill |-> TRUE] }

NoCall == [op |-> "none"]

BlacklistOf(st) == IF st = None THEN <<>> ELSE st.blacklist

KillCountsWithin(bl, n) == \A i \in DOMAIN bl : bl[i].kill_count <= n

Init ==
    /\ app_state = None
    /\ disk = NoFile
    /\ ret = [op |-> "none"]
    /\ sys = NoSnapshot
    /\ attempts = <<>>
    /\ lock = 0
    /\ threads = [t \in Threads |-> Idle]
    /\ os = LiveProcesses
    /\ call = NoCall
    /\ gpu_monitor = [owner |-> 0, value |-> None]
    /\ pdh = 0

\* a command run from its call to its return with no other thread running, on
\* the snapshot or with the arguments the step names
Sequential == UNCHANGED <<lock, threads, os, call, gpu_vars>>

GetBlacklist == Sequential /\ \E w \in WriteOutcomes : get_blacklist(w)

AddToBlacklist ==
    /\ Sequential
    /\ \E n \in AddNames, k \in BOOLEAN, t \in AddThresholds, now \in Times,
       w \in WriteOutcomes :
        /\ add_to_blacklist(n, k, t, now, w)
        /\ Len(BlacklistOf(app_state')) <= MaxEntries

RemoveFromBlacklist ==
    /\ Sequential
    /\ \E n \in RemoveNames, w \in WriteOutcomes : remove_from_blacklist(n, w)

ToggleAutoKill ==
    /\ Sequential
    /\ \E n \in LookupNames, w \in WriteOutcomes : toggle_auto_kill(n, w)

ToggleBlacklistLog ==
    /\ Sequential
    /\ \E n \in LookupNames, w \in WriteOutcomes : toggle_blacklist_log(n, w)

SetCpuThreshold ==
    /\ Sequential
    /\ \E n \in LookupNames, t \in SetThresholds, w \in WriteOutcomes :
        set_cpu_threshold(n, t, w)

GetActivityLogs == Sequential /\ \E w \in WriteOutcomes : get_activity_logs(w)

ClearActivityLogs == Sequential /\ \E w \in WriteOutcomes : clear_activity_logs(w)

CheckAndKillBlacklist ==
    /\ Sequential
    /\ Len(ActivityLogs) <= MaxLogs
    /\ \E s \in Snapshots, now \in Times, w \in WriteOutcomes :
          /\ KillCountsWithin(EnforcePass(State, s, now).blacklist, MaxKills)
          /\ check_and_kill_blacklist(s, now, w)

Next ==
    \/ GetBlacklist
    \/ AddToBlacklist
    \/ RemoveFromBlacklist
    \/ ToggleAutoKill
    \/ ToggleBlacklistLog
    \/ SetCpuThreshold
    \/ GetActivityLogs
    \/ ClearActivityLogs
    \/ CheckAndKillBlacklist

Spec == Init /\ [][Next]_vars

(***************************************************************************)
(* The commands called from several threads.  A command is called (a pass  *)
(* takes its process snapshot then, before with_state), waits for the      *)
(* mutex, runs its closure on the AppState while it holds the mutex, saves *)
(* and returns, which drops the guard.  The closure of a pass runs one     *)
(* process of its loop per step.                                           *)
(***************************************************************************)

ConcName == <<"a">>

ConcSnapshot ==
    [ cpus |-> 2,
      processes |-> << [pid |-> 1, name |-> <<"A", "b">>, cpu_usage |-> 100,
                        term |-> "unsupported", kill |-> TRUE],
                       [pid |-> 2, name |-> <<"a">>, cpu_usage |-> 100,
                        term |-> "failed", kill |-> FALSE] >> ]

ConcCommands ==
    { [op |-> "add_to_blacklist"], [op |-> "toggle_auto_kill"],
      [op |-> "toggle_blacklist_log"], [op |-> "clear_activity_logs"],
      [op |-> "get_activity_logs"], [op |-> Pass] }

\* a mutex that excludes nobody
MutexNeverHeld == TRUE

\* APP_STATE.lock() returns when no thread holds the mutex
MutexAvailable == lock = 0

\* a thread calls a command; check_and_kill_blacklist refreshes its snapshot
\* before it calls with_state
Call(t) ==
    /\ threads[t].pc = "idle"
    /\ \E c \in ConcCommands :
          /\ c.op = Pass =>
                 /\ Len(ActivityLogs) <= MaxLogs
                 /\ KillCountsWithin(Blacklist, MaxKills)
          /\ threads' = [threads EXCEPT ![t] =
                 IF c.op = Pass
                 THEN [pc |-> "waiting", op |-> Pass, s |-> ConcSnapshot]
                 ELSE [pc |-> "waiting", op |-> c.op]]
    /\ UNCHANGED <<app_state, disk, ret, sys, attempts, lock, os, call, gpu_vars>>

\* with_state takes the mutex and loads the AppState on first use; the closure
\* of a pass then copies blacklist_info out of the blacklist.  `expected` is
\* what the whole pass makes of the AppState it finds now.
Lock(t) ==
    /\ threads[t].pc = "waiting"
    /\ MutexAvailable
    /\ lock' = t
    /\ app_state' = State
    /\ threads' = [threads EXCEPT ![t] =
           IF threads[t].op = Pass
           THEN [ pc       |-> "loop",
                  op       |-> Pass,
                  s        |-> threads[t].s,
                  info     |-> blacklist_info(Blacklist),
                  k        |-> 1,
                  new_logs |-> <<>>,
                  attempts |-> <<>>,
                  expected |-> EnforcePass(State, threads[t].s, 1) ]
           ELSE [pc |-> "closure", op |-> threads[t].op]]
    /\ UNCHANGED <<disk, ret, sys, attempts, os, call, gpu_vars>>

\* the closure of a blacklist or log command, and the save that follows it
Closure(t) ==
    /\ threads[t].pc = "closure"
    /\ \/ threads[t].op = "add_to_blacklist"
          /\ add_to_blacklist(ConcName, TRUE, 0, 1, TRUE)
       \/ threads[t].op = "toggle_auto_kill"
          /\ toggle_auto_kill(ConcName, TRUE)
       \/ threads[t].op = "toggle_blacklist_log"
          /\ toggle_blacklist_log(ConcName, TRUE)
       \/ threads[t].op = "clear_activity_logs"
          /\ clear_activity_logs(TRUE)
       \/ threads[t].op = "get_activity_logs"
          /\ get_activity_logs(TRUE)
    /\ threads' = [threads EXCEPT ![t] = [pc |-> "return", op |-> threads[t].op]]
    /\ UNCHANGED <<lock, os, call, gpu_vars>>

\* one iteration of the loop over the snapshot's processes
LoopStep(t) ==
    /\ threads[t].pc = "loop"
    /\ threads[t].k <= Len(threads[t].s.processes)
    /\ LET th == threads[t]
           r  == ProcessStep(
                     [ blacklist     |-> app_state.blacklist,
                       activity_logs |-> app_state.activity_logs,
                       new_logs      |-> th.new_logs,
                       attempts      |-> th.attempts ],
                     th.info, th.s, 1, th.k)
       IN  /\ app_state' = [ blacklist     |-> r.blacklist,
                             activity_logs |-> r.activity_logs ]
           /\ threads' = [threads EXCEPT ![t].k = @ + 1,
                                         ![t].new_logs = r.new_logs,
                                         ![t].attempts = r.attempts]
    /\ UNCHANGED <<disk, ret, sys, attempts, lock, os, call, gpu_vars>>

\* after the loop: the cut to the last 1000 logs, and the save
LoopEnd(t) ==
    /\ threads[t].pc = "loop"
    /\ threads[t].k > Len(threads[t].s.processes)
    /\ with_state([app_state EXCEPT !.activity_logs = KeepLast(@)],
                  Ok(Pass, threads[t].new_logs),
                  TRUE)
    /\ sys' = threads[t].s
    /\ attempts' = threads[t].attempts
    /\ threads' = [threads EXCEPT ![t].pc = "return"]
    /\ UNCHANGED <<lock, os, call, gpu_vars>>

\* with_state returns: the guard is dropped
Unlock(t) ==
    /\ threads[t].pc = "return"
    /\ lock' = 0
    /\ threads' = [threads EXCEPT ![t] = Idle]
    /\ UNCHANGED <<app_state, disk, ret, sys, attempts, os, call, gpu_vars>>

NextConc ==
    \E t \in Threads :
        \/ Call(t)
        \/ Lock(t)
        \/ Closure(t)
        \/ LoopStep(t)
        \/ LoopEnd(t)
        \/ Unlock(t)

SpecConc == Init /\ [][NextConc]_vars

(***************************************************************************)
(* Properties of the blacklist                                             *)
(***************************************************************************)

\* C1: the blacklist never holds two entries whose names are equal under
\* case-insensitive comparison.
C1_NamesUnique ==
    \A i, j \in DOMAIN Blacklist :
        i # j => to_lowercase(Blacklist[i].name) # to_lowercase(Blacklist[j].name)

\* an add of a name that differs from an entry's only by case was refused while
\* the blacklist held two entries
C1_Witness ==
    /\ ret = Err("add_to_blacklist", "Already in blacklist")
    /\ Len(Blacklist) = 2

\* C6: every entry's cpu_threshold lies in [0, 100].
C6_ThresholdInRange ==
    \A i \in DOMAIN Blacklist :
        Blacklist[i].cpu_threshold >= 0 /\ Blacklist[i].cpu_threshold <= 100

(***************************************************************************)
(* Properties of the enforcement pass                                      *)
(***************************************************************************)

\* the successful terminations of the pass that rule j governed
Successes(att, j) == { k \in DOMAIN att : att[k].rule = j /\ att[k].killed }

\* C2: an entry's kill_count never decreases while the entry exists; a pass adds
\* to it exactly the number of successful terminations the entry governed, and
\* every other command leaves it as it is.
C2_KillCount ==
    [][ /\ \A i \in DOMAIN Blacklist : \A j \in DOMAIN Blacklist' :
             Blacklist[i].name = Blacklist'[j].name =>
                 /\ Blacklist'[j].kill_count >= Blacklist[i].kill_count
                 /\ ret'.op # Pass =>
                        Blacklist'[j].kill_count = Blacklist[i].kill_count
        /\ ret'.op = Pass =>
             /\ Len(Blacklist') = Len(Blacklist)
             /\ \A j \in DOMAIN Blacklist :
                    Blacklist'[j].kill_count =
                        Blacklist[j].kill_count + Cardinality(Successes(attempts', j))
      ]_vars

\* a pass in which one attempt failed and another succeeded, leaving a
\* kill_count of 2
C2_Witness ==
    /\ ret.op = Pass
    /\ \E k \in DOMAIN attempts : ~attempts[k].killed
    /\ \E k \in DOMAIN attempts : attempts[k].killed
    /\ \E j \in DOMAIN Blacklist : Blacklist[j].kill_count = 2

\* the rules whose name matches process p, and the first of them
MatchingRules(bl, p) ==
    { j \in DOMAIN bl :
        \/ contains(to_lowercase(p.name), to_lowercase(bl[j].name))
        \/ to_lowercase(p.name) = to_lowercase(bl[j].name) }

Governing(bl, p) ==
    CHOOSE j \in MatchingRules(bl, p) : \A j2 \in MatchingRules(bl, p) : j <= j2

AttemptsOn(p) == { k \in DOMAIN attempts : attempts[k].pid = p.pid }

EntriesOn(p) == { k \in DOMAIN ret.value : ret.value[k].pid = p.pid }

\* the kill condition, stated on an entry and a normalized CPU
Eligible(e, cpu) == e.auto_kill /\ (e.cpu_threshold <= 0 \/ cpu >= e.cpu_threshold)

\* C4: in a pass each process is governed by the first entry, in blacklist
\* order, whose name matches it; no later entry is evaluated for it, and it
\* yields at most one termination attempt and at most one log entry.
C4_FirstRuleGoverns ==
    ret.op = Pass =>
        \A i \in DOMAIN sys.processes :
            LET p == sys.processes[i]
                g == Governing(Blacklist, p)
            IN  /\ Cardinality(AttemptsOn(p)) <= 1
                /\ Cardinality(EntriesOn(p)) <= 1
                /\ MatchingRules(Blacklist, p) = {} =>
                       AttemptsOn(p) = {} /\ EntriesOn(p) = {}
                /\ MatchingRules(Blacklist, p) # {} =>
                       /\ \A k \in AttemptsOn(p) : attempts[k].rule = g
                       /\ AttemptsOn(p) # {} <=>
                              Eligible(Blacklist[g], normalized_cpu(p, sys))
                       /\ EntriesOn(p) # {} <=> Blacklist[g].log_enabled
                       /\ \A k \in EntriesOn(p) :
                              ~Blacklist[g].auto_kill => ret.value[k].reason = "Detected"

\* a process matched two rules; the first only observes, the second would kill:
\* the process was logged as detected and not terminated
C4_Witness ==
    /\ ret.op = Pass
    /\ \E i \in DOMAIN sys.processes :
          LET p == sys.processes[i]
              g == Governing(Blacklist, p)
          IN  /\ Cardinality(MatchingRules(Blacklist, p)) = 2
              /\ ~Blacklist[g].auto_kill
              /\ \E j \in MatchingRules(Blacklist, p) :
                     Eligible(Blacklist[j], normalized_cpu(p, sys))
              /\ AttemptsOn(p) = {}
              /\ EntriesOn(p) # {}

AllLogging(st) ==
    [ blacklist     |-> [j \in 1..Len(st.blacklist) |->
                            [st.blacklist[j] EXCEPT !.log_enabled = TRUE]],
      activity_logs |-> st.activity_logs ]

KillCounts(bl) == [j \in 1..Len(bl) |-> bl[j].kill_count]

\* C9: log_enabled affects only logging.  The pass attempts the terminations and
\* reaches the kill_counts it would with every rule logging; it returns and
\* appends, of the entries it would produce then, those whose governing rule
\* logs: one per matched process under a logging rule, none under a silent one.
C9_LoggingOnly ==
    [][ ret'.op = Pass =>
          \E now \in Times :
            LET r == EnforcePass(AllLogging(State), sys', now)
                kept == SelectSeq(r.new_logs,
                            LAMBDA l : Blacklist[Governing(Blacklist, l)].log_enabled)
            IN  /\ attempts' = r.attempts
                /\ KillCounts(Blacklist') = KillCounts(r.blacklist)
                /\ ret'.value = kept
                /\ ActivityLogs' = KeepLast(ActivityLogs \o kept)
                /\ \A i \in DOMAIN sys'.processes :
                       LET p == sys'.processes[i]
                       IN  MatchingRules(Blacklist, p) # {} =>
                             Cardinality({ k \in DOMAIN ret'.value :
                                             ret'.value[k].pid = p.pid })
                               = IF Blacklist[Governing(Blacklist, p)].log_enabled
                                 THEN 1 ELSE 0
      ]_vars

\* a pass terminated a process under a rule that does not log: the rule's
\* kill_count was incremented and no entry was returned for the process
C9_Witness ==
    /\ ret.op = Pass
    /\ \E k \in DOMAIN attempts :
          /\ attempts[k].killed
          /\ ~Blacklist[attempts[k].rule].log_enabled
          /\ Blacklist[attempts[k].rule].kill_count >= 1
          /\ \A n \in DOMAIN ret.value : ret.value[n].pid # attempts[k].pid

(***************************************************************************)
(* The commands run one at a time around a full activity log: one rule,    *)
(* snapshots of one process and of more processes than the log holds       *)
(***************************************************************************)

MaxTime == 2        \* the clock readings; a logging pass reads a later one

LogTimes == 1..MaxTime

RuleName == <<"a">>

\* one process that can be terminated
OneProcess ==
    [ cpus |-> 1,
      processes |-> << [pid |-> 7, name |-> <<"a">>, cpu_usage |-> 30,
                        term |-> "unsupported", kill |-> TRUE] >> ]

\* LogCap + 1 processes matching the rule, none of which can be terminated
ManyProcesses ==
    [ cpus |-> 1,
      processes |-> [i \in 1..(LogCap + 1) |->
                        [pid |-> i, name |-> <<"a">>, cpu_usage |-> 30,
                         term |-> "failed", kill |-> FALSE]] ]

LogSnapshots == { OneProcess, ManyProcesses }

LogAdd == Sequential /\ add_to_blacklist(RuleName, FALSE, 0, 1, TRUE)

LogToggleAutoKill == Sequential /\ toggle_auto_kill(RuleName, TRUE)

LogToggleLog == Sequential /\ toggle_blacklist_log(RuleName, TRUE)

LogGet == Sequential /\ get_activity_logs(TRUE)

LogClear == Sequential /\ clear_activity_logs(TRUE)

LogPass ==
    /\ Sequential
    /\ \E s \in LogSnapshots, now \in LogTimes :
        /\ ActivityLogs # <<>> =>
               now > ActivityLogs[Len(ActivityLogs)].detected_at
        /\ KillCountsWithin(Blacklist, MaxKills - 1)
        /\ check_and_kill_blacklist(s, now, TRUE)

NextLog ==
    \/ LogAdd
    \/ LogToggleAutoKill
    \/ LogToggleLog
    \/ LogGet
    \/ LogClear
    \/ LogPass

SpecLog == Init /\ [][NextLog]_vars

(***************************************************************************)
(* Properties of the activity log                                          *)
(***************************************************************************)

\* the last n elements of s, all of s when it has fewer
LastN(s, n) ==
    LET m == IF Len(s) < n THEN Len(s) ELSE n
    IN  [i \in 1..m |-> s[Len(s) - m + i]]

\* C3: the activity log never has more than 1000 entries, and a pass leaves in
\* it the 1000 most recent of the entries it held followed by the entries the
\* pass appended, in that order: the cut drops the oldest entries only.
C3_LogBounded ==
    /\ [](Len(ActivityLogs) <= LogCap)
    /\ [][ ret'.op = Pass =>
               ActivityLogs' = LastN(ActivityLogs \o ret'.value, LogCap) ]_vars

\* a pass appended one entry to a full log: the log is still full, ends with
\* the new entry, and has lost its two oldest entries to the two cuts so far
C3_Witness ==
    /\ ret.op = Pass
    /\ Len(ret.value) = 1
    /\ Len(ActivityLogs) = LogCap
    /\ ActivityLogs[LogCap] = ret.value[1]
    /\ ActivityLogs[1].pid = 3

\* C10 as claimed: the list a pass returns is the trailing segment of the
\* activity log.
C10_ReturnedIsLogTail ==
    ret.op = Pass =>
        /\ Len(ret.value) <= Len(ActivityLogs)
        /\ ret.value = LastN(ActivityLogs, Len(ret.value))

\* C10, amended: the last 1000 entries of the list a pass returns (all of them
\* when there are fewer) are the trailing segment of the activity log.
C10_ReturnedEndsLog ==
    ret.op = Pass =>
        LET n == IF Len(ret.value) < LogCap THEN Len(ret.value) ELSE LogCap
        IN  /\ n <= Len(ActivityLogs)
            /\ LastN(ret.value, n) = LastN(ActivityLogs, n)

\* a pass returned one entry, which now ends a log that held entries before it
C10_Witness ==
    /\ ret.op = Pass
    /\ Len(ret.value) = 1
    /\ Len(ActivityLogs) > 1
    /\ ActivityLogs[Len(ActivityLogs)] = ret.value[1]

\* what a pass decided for each process it logged
Classification(logs) ==
    [k \in 1..Len(logs) |->
        [pid |-> logs[k].pid, was_killed |-> logs[k].was_killed,
         reason |-> logs[k].reason]]

\* C8: while no rule has auto_kill, a pass attempts no termination, logs every
\* process matched under a logging rule as "Detected" with was_killed = false,
\* leaves every kill_count unchanged, and classifies the processes as the pass
\* before it did when that one saw the same snapshot.
C8_DetectOnly ==
    [][ (ret'.op = Pass /\ \A j \in DOMAIN Blacklist : ~Blacklist[j].auto_kill) =>
          /\ attempts' = <<>>
          /\ KillCounts(Blacklist') = KillCounts(Blacklist)
          /\ \A k \in DOMAIN ret'.value :
                 ret'.value[k].reason = "Detected" /\ ~ret'.value[k].was_killed
          /\ \A i \in DOMAIN sys'.processes :
                 LET p == sys'.processes[i]
                 IN  (/\ MatchingRules(Blacklist, p) # {}
                      /\ Blacklist[Governing(Blacklist, p)].log_enabled) =>
                         \E k \in DOMAIN ret'.value : ret'.value[k].pid = p.pid
          /\ (ret.op = Pass /\ sys' = sys) =>
                 Classification(ret'.value) = Classification(ret.value)
      ]_vars

\* two passes in a row over the same process, both logging it as detected,
\* under a rule that has terminated processes before
C8_Witness ==
    /\ ret.op = Pass
    /\ Len(ret.value) = 1
    /\ ret.value[1].reason = "Detected"
    /\ Len(ActivityLogs) >= 2
    /\ ActivityLogs[Len(ActivityLogs) - 1].pid = ret.value[1].pid
    /\ ActivityLogs[Len(ActivityLogs) - 1].reason = "Detected"
    /\ \E j \in DOMAIN Blacklist : Blacklist[j].kill_count > 0

\* C11: get_activity_logs returns the min(100, total) most recently appended
\* entries, the most recent first and each next one appended just before the
\* one it follows, and leaves the activity log and the blacklist as they were.
C11_RecentLogs ==
    [][ ret'.op = "get_activity_logs" =>
          LET total == Len(ActivityLogs)
              m     == IF total < 100 THEN total ELSE 100
          IN  /\ Len(ret'.value) = m
              /\ \A i \in 1..m : ret'.value[i] = ActivityLogs[total + 1 - i]
              /\ ActivityLogs' = ActivityLogs
              /\ Blacklist' = Blacklist
              /\ disk' = State
      ]_vars

\* a read of a full log of 1000 entries returned 100 of them, the last one
\* appended first
C11_Witness ==
    /\ ret.op = "get_activity_logs"
    /\ Len(ActivityLogs) = LogCap
    /\ Len(ret.value) = 100
    /\ ret.value[1] = ActivityLogs[LogCap]
    /\ ret.value[100] = ActivityLogs[LogCap - 99]
    /\ ret.value[1] # ret.value[100]

(***************************************************************************)
(* Properties of the commands called from several threads                  *)
(***************************************************************************)

\* the threads inside with_state
InWithState == { t \in Threads : threads[t].pc \in {"closure", "loop", "return"} }

\* C7: every command holds the one mutex from its read of the AppState to its
\* save, so commands called from several threads run one after another: at
\* most one thread is inside with_state and it holds the mutex; the AppState
\* a command finds holds no half-applied pass (its log is within 1000 entries
\* and it is the AppState that was saved last);
\* and a pass leaves the AppState, and returns the entries, that the whole
\* pass makes of the AppState it found when it took the mutex.
C7_Serialized ==
    /\ Cardinality(InWithState) <= 1
    /\ \A t \in InWithState : lock = t
    /\ InWithState = {} =>
          /\ lock = 0
          /\ Len(ActivityLogs) <= LogCap
          /\ app_state # None => disk = app_state
    /\ \A t \in Threads :
          (threads[t].pc = "return" /\ threads[t].op = Pass) =>
              /\ app_state.blacklist = threads[t].expected.blacklist
              /\ app_state.activity_logs = threads[t].expected.activity_logs
              /\ threads[t].new_logs = threads[t].expected.new_logs
              /\ threads[t].attempts = threads[t].expected.attempts

\* a pass has terminated a process and is about to return while the other
\* thread, which called a command meanwhile, waits for the mutex
C7_Witness ==
    \E t, u \in Threads :
        /\ threads[t].pc = "return"
        /\ threads[t].op = Pass
        /\ \E k \in DOMAIN threads[t].attempts : threads[t].attempts[k].killed
        /\ threads[u].pc = "waiting"

(***************************************************************************)
(* The blacklist commands called one at a time with names as a user types  *)
(* them: in either case, with blanks around them, and aliases              *)
(***************************************************************************)

TypedNames ==
    { <<"a">>, <<"A">>, <<" ", "a">>, <<"c", "a", "l", "c">>, <<" ">> }

AddressedNames ==
    { <<"A">>, <<" ", "a">>, <<"c", "a", "l", "c">>,
      <<"C", "A", "L", "C", "U", "L", "A", "T", "O", "R">> }

ToggledNames == { <<"A">>, <<" ", "a">> }

NamesThresholds == { -10, 150 }

\* one process, which "a" matches and which can be terminated
NamesSnapshot ==
    [ cpus |-> 1,
      processes |-> << [pid |-> 5, name |-> <<"A", "b">>, cpu_usage |-> 60,
                        term |-> "ok", kill |-> FALSE] >> ]

NamesAdd ==
    /\ UNCHANGED <<lock, threads, os, gpu_vars>>
    /\ \E n \in TypedNames :
        /\ add_to_blacklist(n, TRUE, 30, 1, TRUE)
        /\ Len(BlacklistOf(app_state')) <= MaxEntries
        /\ call' = [op |-> "add_to_blacklist", name |-> n, auto_kill |-> TRUE,
                    cpu_threshold |-> 30]

NamesRemove ==
    /\ UNCHANGED <<lock, threads, os, gpu_vars>>
    /\ \E n \in AddressedNames :
        /\ remove_from_blacklist(n, TRUE)
        /\ call' = [op |-> "remove_from_blacklist", name |-> n]

NamesToggleAutoKill ==
    /\ UNCHANGED <<lock, threads, os, gpu_vars>>
    /\ \E n \in ToggledNames :
        /\ toggle_auto_kill(n, TRUE)
        /\ call' = [op |-> "toggle_auto_kill", name |-> n]

NamesToggleLog ==
    /\ UNCHANGED <<lock, threads, os, gpu_vars>>
    /\ \E n \in ToggledNames :
        /\ toggle_blacklist_log(n, TRUE)
        /\ call' = [op |-> "toggle_blacklist_log", name |-> n]

NamesSetThreshold ==
    /\ UNCHANGED <<lock, threads, os, gpu_vars>>
    /\ \E n \in AddressedNames, t \in NamesThresholds :
        /\ set_cpu_threshold(n, t, TRUE)
        /\ call' = [op |-> "set_cpu_threshold", name |-> n, threshold |-> t]

NamesPass ==
    /\ UNCHANGED <<lock, threads, os, gpu_vars>>
    /\ ActivityLogs = <<>>
    /\ KillCountsWithin(Blacklist, 0)
    /\ check_and_kill_blacklist(NamesSnapshot, 1, TRUE)
    /\ call' = [op |-> Pass]

NextNames ==
    \/ NamesAdd
    \/ NamesRemove
    \/ NamesToggleAutoKill
    \/ NamesToggleLog
    \/ NamesSetThreshold
    \/ NamesPass

SpecNames == Init /\ [][NextNames]_vars

(***************************************************************************)
(* Properties of the blacklist commands                                    *)
(***************************************************************************)

\* the entries whose name equals `name` when case is ignored
EntriesNamed(bl, name) ==
    { i \in DOMAIN bl : to_lowercase(bl[i].name) = to_lowercase(name) }

\* C12: set_cpu_threshold(name, t) on a name that matches an entry when case is
\* ignored stores min(max(t, 0), 100) in that entry, returns that value, and
\* changes no other field, no other entry and nothing in the activity log.
C12_SetClamps ==
    [][ (call'.op = "set_cpu_threshold"
            /\ EntriesNamed(Blacklist, call'.name) # {}) =>
          LET t       == call'.threshold
              clamped == IF t < 0 THEN 0 ELSE IF t > 100 THEN 100 ELSE t
          IN  /\ ret' = Ok("set_cpu_threshold", clamped)
              /\ \E i \in EntriesNamed(Blacklist, call'.name) :
                     Blacklist' = [Blacklist EXCEPT ![i].cpu_threshold = clamped]
              /\ ActivityLogs' = ActivityLogs
      ]_vars

\* a threshold of 150 was set on the second of two entries, which has
\* terminated a process: it reads 100 and nothing else has changed
C12_Witness ==
    /\ call.op = "set_cpu_threshold"
    /\ call.threshold = 150
    /\ ret = Ok("set_cpu_threshold", 100)
    /\ Len(Blacklist) = 2
    /\ Blacklist[2].cpu_threshold = 100
    /\ Blacklist[1].cpu_threshold = 30
    /\ ActivityLogs # <<>>

LookupOps ==
    { "remove_from_blacklist", "toggle_auto_kill", "toggle_blacklist_log",
      "set_cpu_threshold" }

\* C13 as claimed: a blacklist command that returns an error leaves the
\* blacklist and the activity log unchanged; add_to_blacklist returns "Already
\* in blacklist" exactly when an entry's name equals its name argument with
\* case ignored, and the other four return "Not found in blacklist" exactly
\* when no entry's name does.
C13_ErrorsOnArgument ==
    [][ /\ (call'.op \in LookupOps \cup {"add_to_blacklist"} /\ ~ret'.ok) =>
              Blacklist' = Blacklist /\ ActivityLogs' = ActivityLogs
        /\ call'.op = "add_to_blacklist" =>
              (ret' = Err("add_to_blacklist", "Already in blacklist")
                  <=> EntriesNamed(Blacklist, call'.name) # {})
        /\ call'.op \in LookupOps =>
              (ret' = Err(call'.op, "Not found in blacklist")
                  <=> EntriesNamed(Blacklist, call'.name) = {})
      ]_vars

\* C13, amended: a blacklist command that returns an error leaves the
\* blacklist and the activity log unchanged; add_to_blacklist returns "Already
\* in blacklist" exactly when an entry's name equals, with case ignored, the
\* resolved form of its argument (trimmed, lowercased, an alias replaced by
\* its canonical name) and "Name cannot be empty" exactly when that form is
\* empty; the other four return "Not found in blacklist" exactly when no
\* entry's name equals their argument as given, with case ignored.
C13_ErrorsOnResolved ==
    [][ /\ (call'.op \in LookupOps \cup {"add_to_blacklist"} /\ ~ret'.ok) =>
              Blacklist' = Blacklist /\ ActivityLogs' = ActivityLogs
        /\ call'.op = "add_to_blacklist" =>
              LET name == resolve_process_name(call'.name)
              IN  /\ ret' = Err("add_to_blacklist", "Name cannot be empty")
                         <=> name = <<>>
                  /\ ret' = Err("add_to_blacklist", "Already in blacklist")
                         <=> (name # <<>> /\ EntriesNamed(Blacklist, name) # {})
                  /\ ret'.ok <=> (name # <<>> /\ EntriesNamed(Blacklist, name) = {})
        /\ call'.op \in LookupOps =>
              (ret' = Err(call'.op, "Not found in blacklist")
                  <=> EntriesNamed(Blacklist, call'.name) = {})
      ]_vars

\* the alias "calc" was refused as already present while the blacklist holds
\* "calculator" and the log holds an entry
C13_Witness ==
    /\ call.op = "add_to_blacklist"
    /\ call.name = <<"c", "a", "l", "c">>
    /\ ret = Err("add_to_blacklist", "Already in blacklist")
    /\ EntriesNamed(Blacklist, call.name) = {}
    /\ Len(Blacklist) = 2
    /\ ActivityLogs # <<>>

\* C14: the name stored in the entry that add_to_blacklist creates has the
\* casing of the name as typed: when the two are equal with case ignored, they
\* are equal.
C14_CasingPreserved ==
    [][ (call'.op = "add_to_blacklist" /\ ret'.ok) =>
          LET stored == Blacklist'[Len(Blacklist')].name
          IN  to_lowercase(stored) = to_lowercase(call'.name) =>
                  stored = call'.name
      ]_vars

(***************************************************************************)
(* The GPU monitor of src-tauri/src/gpu.rs (the Windows build).            *)
(*                                                                         *)
(* A counter instance is [name, value]: its name a sequence of characters, *)
(* its value a whole number of percent.  A usage map is a function from    *)
(* the ProcessIds that are its keys.                                       *)
(***************************************************************************)

Digits == <<"0", "1", "2", "3", "4", "5", "6", "7", "8", "9">>

IsDigit(c) == \E d \in DOMAIN Digits : Digits[d] = c

DigitValue(c) == (CHOOSE d \in DOMAIN Digits : Digits[d] = c) - 1

NoPid == [some |-> FALSE]

SomePid(v) == [some |-> TRUE, value |-> v]

\* str::find: the 0-based index of the first occurrence, -1 for None
find(s, pat) ==
    IF contains(s, pat)
    THEN CHOOSE i \in 0..(Len(s) - Len(pat)) :
            /\ SubSeq(s, i + 1, i + Len(pat)) = pat
            /\ \A j \in 0..(i - 1) : SubSeq(s, j + 1, j + Len(pat)) # pat
    ELSE -1

RECURSIVE DecimalValue(_)
DecimalValue(ds) ==
    IF ds = <<>> THEN 0
    ELSE 10 * DecimalValue(SubSeq(ds, 1, Len(ds) - 1)) + DigitValue(ds[Len(ds)])

\* str::parse::<u32>: one or more decimal digits, which a "+" may precede
parse_u32(str) ==
    LET ds == IF str # <<>> /\ str[1] = "+" THEN Tail(str) ELSE str
    IN  IF ds # <<>> /\ \A i \in DOMAIN ds : IsDigit(ds[i])
        THEN SomePid(DecimalValue(ds))
        ELSE NoPid

parse_pid_from_instance(name) ==
    LET idx == find(name, <<"p", "i", "d", "_">>)
    IN  IF idx = -1 THEN NoPid
        ELSE LET rest    == SubSeq(name, idx + 5, Len(name))
                 under   == find(rest, <<"_">>)
                 end_idx == IF under = -1 THEN Len(rest) ELSE under
             IN  parse_u32(SubSeq(rest, 1, end_idx))

EmptyUsage == [pid \in {} |-> 0]

\* an accumulation that keeps the last value reported for a ProcessId
OverwriteUsage(usage_map, item) ==
    LET pid == parse_pid_from_instance(item.name)
    IN  IF ~pid.some THEN usage_map
        ELSE [k \in DOMAIN usage_map \cup {pid.value} |->
                 IF k = pid.value THEN item.value ELSE usage_map[k]]

\* *usage_map.entry(pid).or_insert(0.0) += value
AddUsage(usage_map, item) ==
    LET pid == parse_pid_from_instance(item.name)
    IN  IF ~pid.some THEN usage_map
        ELSE [k \in DOMAIN usage_map \cup {pid.value} |->
                 IF k = pid.value
                 THEN (IF k \in DOMAIN usage_map THEN usage_map[k] ELSE 0)
                          + item.value
                 ELSE usage_map[k]]

\* the loop over the items of the formatted counter array
RECURSIVE ForEachItem(_, _, _)
ForEachItem(usage_map, items, i) ==
    IF i > Len(items) THEN usage_map
    ELSE ForEachItem(AddUsage(usage_map, items[i]), items, i + 1)

\* GpuMonitor::new: PdhOpenQueryW or PdhAddEnglishCounterW may fail
GpuMonitorNew(outcome) ==
    IF outcome = "ok"
    THEN [query |-> 1, counter |-> 1, initialized |-> TRUE]
    ELSE [query |-> 0, counter |-> 0, initialized |-> FALSE]

\* GpuMonitor::get_usage; `sample` is what the PDH calls give: the failure of
\* the collection, an empty array, the failure of the second format call, or
\* the items
get_usage(mon, sample) ==
    IF ~mon.initialized THEN EmptyUsage
    ELSE IF sample.status # "ok" THEN EmptyUsage
    ELSE ForEachItem(EmptyUsage, sample.items, 1)

(***************************************************************************)
(* get_gpu_usages called from several threads                              *)
(***************************************************************************)

MaxItems == 2       \* the counter instances in one sample

\* "pid_1_e", "pid_1", "xpid_2_e", "e_3", "pid_x1", "pid__1", "pid_12_pid_2"
\* and "pid_+2"
InstanceNames ==
    { <<"p", "i", "d", "_", "1", "_", "e">>,
      <<"p", "i", "d", "_", "1">>,
      <<"x", "p", "i", "d", "_", "2", "_", "e">>,
      <<"e", "_", "3">>,
      <<"p", "i", "d", "_", "x", "1">>,
      <<"p", "i", "d", "_", "_", "1">>,
      <<"p", "i", "d", "_", "1", "2", "_", "p", "i", "d", "_", "2">>,
      <<"p", "i", "d", "_", "+", "2">> }

InstanceValues == { 3, 5 }

Instances == [name : InstanceNames, value : InstanceValues]

Samples ==
    { [status |-> f, items |-> <<>>] :
        f \in {"collect_failed", "no_data", "format_failed"} }
    \cup { [status |-> "ok", items |-> is] : is \in SeqsUpTo(Instances, MaxItems) \ { <<>> } }

NewOutcomes == { "ok", "open_failed", "add_failed" }

\* a monitor that is made anew on every call
MonitorAlwaysMissing(value) == TRUE

\* monitor.is_none()
MonitorMissing(value) == value = None

AppUntouched == UNCHANGED <<app_state, disk, sys, attempts, lock, os>>

GpuCall(t) ==
    /\ threads[t].pc = "idle"
    /\ threads' = [threads EXCEPT ![t] = [pc |-> "gpu_waiting"]]
    /\ UNCHANGED <<ret, call, gpu_vars>>
    /\ AppUntouched

\* GPU_MONITOR.lock()
GpuLock(t) ==
    /\ threads[t].pc = "gpu_waiting"
    /\ gpu_monitor.owner = 0
    /\ gpu_monitor' = [gpu_monitor EXCEPT !.owner = t]
    /\ threads' = [threads EXCEPT ![t] = [pc |-> "gpu_locked"]]
    /\ UNCHANGED <<ret, call, pdh>>
    /\ AppUntouched

\* if monitor.is_none() { *monitor = Some(GpuMonitor::new()) }
GpuInit(t) ==
    /\ threads[t].pc = "gpu_locked"
    /\ IF MonitorMissing(gpu_monitor.value)
       THEN \E outcome \in NewOutcomes :
                /\ gpu_monitor' = [gpu_monitor EXCEPT !.value = GpuMonitorNew(outcome)]
                /\ pdh' = pdh + 1
       ELSE UNCHANGED gpu_vars
    /\ threads' = [threads EXCEPT ![t] = [pc |-> "gpu_usage"]]
    /\ UNCHANGED <<ret, call>>
    /\ AppUntouched

\* mon.get_usage()
GpuUsage(t) ==
    /\ threads[t].pc = "gpu_usage"
    /\ \E sample \in Samples :
          threads' = [threads EXCEPT ![t] =
              [ pc     |-> "gpu_return",
                sample |-> sample,
                usage  |-> get_usage(gpu_monitor.value, sample) ]]
    /\ UNCHANGED <<ret, call, gpu_vars>>
    /\ AppUntouched

\* get_gpu_usages returns, which drops the guard
GpuReturn(t) ==
    /\ threads[t].pc = "gpu_return"
    /\ gpu_monitor' = [gpu_monitor EXCEPT !.owner = 0]
    /\ ret' = Ok("get_gpu_usages", threads[t].usage)
    /\ call' = [op |-> "get_gpu_usages", sample |-> threads[t].sample]
    /\ threads' = [threads EXCEPT ![t] = Idle]
    /\ UNCHANGED pdh
    /\ AppUntouched

NextGpu ==
    \E t \in Threads :
        \/ GpuCall(t)
        \/ GpuLock(t)
        \/ GpuInit(t)
        \/ GpuUsage(t)
        \/ GpuReturn(t)

SpecGpu == Init /\ [][NextGpu]_vars

(***************************************************************************)
(* Properties of the GPU monitor                                           *)
(***************************************************************************)

\* C15: the monitor is made on the first call of get_gpu_usages and never
\* again: at most one PDH query is ever opened, by whatever threads call; a
\* call that has passed the check finds a monitor; the monitor, Ready or
\* Disabled, never changes afterwards; and a call on a Disabled monitor
\* returns the empty map whatever the counters would report.
C15_InitOnce ==
    /\ [](pdh <= 1)
    /\ [](gpu_monitor.value = None <=> pdh = 0)
    /\ [](\A t \in Threads :
             threads[t].pc \in {"gpu_usage", "gpu_return"} =>
                 gpu_monitor.value # None /\ gpu_monitor.owner = t)
    /\ [](\A t \in Threads :
             (threads[t].pc = "gpu_return" /\ ~gpu_monitor.value.initialized) =>
                 threads[t].usage = EmptyUsage)
    /\ [](ret.op = "get_gpu_usages" =>
             /\ gpu_monitor.value # None
             /\ ~gpu_monitor.value.initialized => ret.value = EmptyUsage)
    /\ [][gpu_monitor.value # None => gpu_monitor'.value = gpu_monitor.value]_vars

\* the monitor is Disabled after its one initialization; a call has returned,
\* another is about to return the empty map although its sample had items,
\* while the other thread waits for the mutex
C15_Witness ==
    /\ pdh = 1
    /\ ~gpu_monitor.value.initialized
    /\ ret.op = "get_gpu_usages"
    /\ \E t, u \in Threads :
          /\ threads[t].pc = "gpu_return"
          /\ threads[t].sample.status = "ok"
          /\ threads[t].sample.items # <<>>
          /\ threads[t].usage = EmptyUsage
          /\ threads[u].pc = "gpu_waiting"

MaxPid == 12        \* the ProcessIds an instance name of the samples can hold

\* the text between the first "pid_" of the name and the next "_" (or the end)
PidToken(name) ==
    LET i    == CHOOSE k \in 1..Len(name) :
                   /\ SubSeq(name, k, k + 3) = <<"p", "i", "d", "_">>
                   /\ \A j \in 1..(k - 1) :
                          SubSeq(name, j, j + 3) # <<"p", "i", "d", "_">>
        rest == SubSeq(name, i + 4, Len(name))
        stop == IF \E k \in DOMAIN rest : rest[k] = "_"
                THEN (CHOOSE k \in DOMAIN rest :
                         rest[k] = "_" /\ \A j \in 1..(k - 1) : rest[j] # "_") - 1
                ELSE Len(rest)
    IN  SubSeq(rest, 1, stop)

HasPidToken(name) ==
    \E k \in 1..(Len(name) - 3) : SubSeq(name, k, k + 3) = <<"p", "i", "d", "_">>

IsNumber(ds, pid) ==
    /\ ds # <<>>
    /\ \A i \in DOMAIN ds : IsDigit(ds[i])
    /\ DecimalValue(ds) = pid

\* the name holds pid_<digits> for this ProcessId
DecodesTo(name, pid) == HasPidToken(name) /\ IsNumber(PidToken(name), pid)

\* the name holds pid_<digits>, or pid_+<digits>, for this ProcessId
DecodesSigned(name, pid) ==
    /\ HasPidToken(name)
    /\ \/ IsNumber(PidToken(name), pid)
       \/ /\ PidToken(name) # <<>>
          /\ PidToken(name)[1] = "+"
          /\ IsNumber(Tail(PidToken(name)), pid)

RECURSIVE SumValues(_, _)
SumValues(items, I) ==
    IF I = {} THEN 0
    ELSE LET i == CHOOSE k \in I : TRUE
         IN  items[i].value + SumValues(items, I \ {i})

\* C16 as claimed: the map of a successful sample has a key for each ProcessId
\* that some instance name holds as pid_<digits>, and no other key, and the
\* value of a key is the sum of the values of the instances that hold it.
C16_SumPerPid ==
    (ret.op = "get_gpu_usages" /\ gpu_monitor.value.initialized
        /\ call.sample.status = "ok") =>
        LET items == call.sample.items
            of(pid) == { i \in DOMAIN items : DecodesTo(items[i].name, pid) }
        IN  /\ DOMAIN ret.value = { pid \in 0..MaxPid : of(pid) # {} }
            /\ \A pid \in DOMAIN ret.value :
                   ret.value[pid] = SumValues(items, of(pid))

\* C16, amended: the same, where an instance name holds a ProcessId as
\* pid_<digits> or as pid_+<digits>.
C16_SumPerSignedPid ==
    (ret.op = "get_gpu_usages" /\ gpu_monitor.value.initialized
        /\ call.sample.status = "ok") =>
        LET items == call.sample.items
            of(pid) == { i \in DOMAIN items : DecodesSigned(items[i].name, pid) }
        IN  /\ DOMAIN ret.value = { pid \in 0..MaxPid : of(pid) # {} }
            /\ \A pid \in DOMAIN ret.value :
                   ret.value[pid] = SumValues(items, of(pid))

\* two instances of process 1 with 3 and 5 percent gave {1: 8}
C16_Witness ==
    /\ ret.op = "get_gpu_usages"
    /\ call.sample.status = "ok"
    /\ Len(call.sample.items) = 2
    /\ call.sample.items[1].name # call.sample.items[2].name
    /\ call.sample.items[1].value = 3
    /\ call.sample.items[2].value = 5
    /\ DOMAIN ret.value = {1}
    /\ ret.value[1] = 8

(***************************************************************************)
(* grouped_processes.  A process of its snapshot is                        *)
(*   [pid, name, cpu_usage, memory]                                        *)
(* with the memory in bytes.  The HashMap of groups is a function from the *)
(* names that are its keys; into_values yields its groups in any order.    *)
(***************************************************************************)

\* names.into_iter().map(resolve_process_name).filter(|s| !s.is_empty())
watch_list(names) ==
    SelectSeq([i \in 1..Len(names) |-> resolve_process_name(names[i])],
              LAMBDA w : w # <<>>)

\* watch.iter().any(|w| pname_lower.contains(w) || w == &pname_lower)
Watched(pname_lower, watch) ==
    \E i \in DOMAIN watch : Matches(pname_lower, watch[i])

\* a key that ignores the case of the process name
LowerKey(pname) == to_lowercase(pname)

\* base_name: the process name as it is
GroupKey(pname) == pname

\* one iteration of the loop over the processes
GroupStep(groups, watch, s, k) ==
    LET p   == s.processes[k]
        key == GroupKey(p.name)
        old == IF key \in DOMAIN groups THEN groups[key]
               ELSE [ name |-> key, process_count |-> 0, pids |-> <<>>,
                      total_cpu |-> 0, total_memory_kb |-> 0 ]
        new == [ name            |-> old.name,
                 process_count   |-> old.process_count + 1,
                 pids            |-> Append(old.pids, p.pid),
                 total_cpu       |-> old.total_cpu + normalized_cpu(p, s),
                 total_memory_kb |-> old.total_memory_kb + (p.memory \div 1024) ]
    IN  IF Watched(to_lowercase(p.name), watch)
        THEN [n \in DOMAIN groups \cup {key} |-> IF n = key THEN new ELSE groups[n]]
        ELSE groups

RECURSIVE GroupLoop(_, _, _, _)
GroupLoop(groups, watch, s, k) ==
    IF k > Len(s.processes) THEN groups
    ELSE GroupLoop(GroupStep(groups, watch, s, k), watch, s, k + 1)

\* the sequences that hold each element of S once
RECURSIVE Orders(_)
Orders(S) ==
    IF S = {} THEN { <<>> }
    ELSE UNION { { <<x>> \o q : q \in Orders(S \ {x}) } : x \in S }

\* the place sort_by gives x among groups sorted by descending total_cpu:
\* after every group it does not exceed
InsertSorted(sorted, x) ==
    LET ahead == { i \in DOMAIN sorted : sorted[i].total_cpu >= x.total_cpu }
        n     == Cardinality(ahead)
    IN  SubSeq(sorted, 1, n) \o <<x>> \o SubSeq(sorted, n + 1, Len(sorted))

\* result.sort_by(|a, b| b.total_cpu.partial_cmp(&a.total_cpu)...): stable
RECURSIVE sort_by(_, _)
sort_by(v, k) ==
    IF k = 0 THEN <<>> ELSE InsertSorted(sort_by(v, k - 1), v[k])

\* grouped_processes on snapshot s, when into_values yields the groups in
\* the order of `keys`
grouped_processes(names, s, keys) ==
    LET watch  == watch_list(names)
        groups == GroupLoop(<<>>, watch, s, 1)
        result == [i \in 1..Len(keys) |-> groups[keys[i]]]
    IN  IF watch = <<>> THEN <<>> ELSE sort_by(result, Len(result))

\* the keys of the HashMap grouped_processes builds
GroupKeys(names, s) == DOMAIN GroupLoop(<<>>, watch_list(names), s, 1)

(***************************************************************************)
(* grouped_processes called on small snapshots                             *)
(***************************************************************************)

MaxWatched == 3     \* the processes in one snapshot

WatchLists ==
    { << <<" ">> >>,
      << <<"A">> >>,
      << <<"c", "a", "l", "c">> >>,
      << <<"A">>, <<"b">> >> }

WatchedPool ==
    { [pid |-> 1, name |-> <<"A", "b">>, cpu_usage |-> 20, memory |-> 1536],
      [pid |-> 2, name |-> <<"a", "b">>, cpu_usage |-> 20, memory |-> 2048],
           [pid |-> 3, name |-> <<"A", "b">>, cpu_usage |-> 20, memory |-> 1536],
           [pid |-> 4, name |-> <<"b">>, cpu_usage |-> 60, memory |-> 100],
           [pid |-> 5, name |-> <<"c", "a", "l", "c">>, cpu_usage |-> 20,
            memory |-> 4096] }

WatchedSnapshots ==
    { [cpus |-> 2, processes |-> ps] :
        ps \in { q \in SeqsUpTo(WatchedPool, MaxWatched) :
                   \A i, j \in DOMAIN q : i # j => q[i].pid # q[j].pid } }

StateUntouched ==
    UNCHANGED <<app_state, disk, attempts, lock, threads, os, gpu_vars>>

GroupedProcesses ==
    /\ \E names \in WatchLists, s \in WatchedSnapshots :
        \E keys \in Orders(GroupKeys(names, s)) :
            /\ ret' = Ok("grouped_processes", grouped_processes(names, s, keys))
            /\ call' = [op |-> "grouped_processes", names |-> names]
            /\ sys' = s
    /\ StateUntouched

NextWatch == GroupedProcesses

SpecWatch == Init /\ [][NextWatch]_vars

(***************************************************************************)
(* Properties of grouped_processes                                         *)
(***************************************************************************)

\* where in the snapshot the first process with this name stands
FirstSeen(name) ==
    CHOOSE k \in DOMAIN sys.processes :
        /\ sys.processes[k].name = name
        /\ \A j \in 1..(k - 1) : sys.processes[j].name # name

\* C17: the groups are returned by descending total_cpu, and groups with equal
\* total_cpu in the order in which their first members stand in the snapshot.
C17_SortedStable ==
    ret.op = "grouped_processes" =>
        \A i, j \in DOMAIN ret.value :
            i < j =>
                /\ ret.value[i].total_cpu >= ret.value[j].total_cpu
                /\ ret.value[i].total_cpu = ret.value[j].total_cpu =>
                       FirstSeen(ret.value[i].name) < FirstSeen(ret.value[j].name)

\* the processes of the snapshot with this name
Members(name) ==
    { k \in DOMAIN sys.processes : sys.processes[k].name = name }

RECURSIVE SumOver(_, _)
SumOver(f, I) ==
    IF I = {} THEN 0
    ELSE LET i == CHOOSE k \in I : TRUE
         IN  f[i] + SumOver(f, I \ {i})

\* each group counts, lists and sums the processes that have its name
GroupsHoldMembers ==
    \A g \in DOMAIN ret.value :
        LET group == ret.value[g]
            M     == Members(group.name)
        IN  /\ group.process_count = Cardinality(M)
            /\ Len(group.pids) = Cardinality(M)
            /\ { group.pids[i] : i \in DOMAIN group.pids }
                   = { sys.processes[k].pid : k \in M }
            /\ group.total_cpu =
                   SumOver([k \in DOMAIN sys.processes |->
                               sys.processes[k].cpu_usage \div sys.cpus], M)
            /\ group.total_memory_kb =
                   SumOver([k \in DOMAIN sys.processes |->
                               sys.processes[k].memory \div 1024], M)

\* there is one group for each of these names, and no other group
GroupsAre(names) ==
    /\ { ret.value[g].name : g \in DOMAIN ret.value } = names
    /\ Len(ret.value) = Cardinality(names)

RaceName == <<"a">>

\* the processes of the table in the order of their pids
RECURSIVE ListByPid(_)
ListByPid(procs) ==
    IF procs = {} THEN <<>>
    ELSE LET p == CHOOSE q \in procs : \A r \in procs : q.pid <= r.pid
         IN  <<p>> \o ListByPid(procs \ {p})

\* sys.refresh_processes: the processes alive now
Refresh == [cpus |-> 1, processes |-> ListByPid(os)]

RaceAdd ==
    /\ \A t \in Threads : threads[t].pc = "idle"
    /\ add_to_blacklist(RaceName, TRUE, 0, 1, TRUE)
    /\ Sequential

RaceClear ==
    /\ \A t \in Threads : threads[t].pc = "idle"
    /\ ActivityLogs # <<>>
    /\ clear_activity_logs(TRUE)
    /\ Sequential

\* the snapshot is taken here, before with_state
RaceCall(t) ==
    /\ threads[t].pc = "idle"
    /\ Len(ActivityLogs) <= MaxLogs
    /\ threads' = [threads EXCEPT ![t] =
           [pc |-> "waiting", op |-> Pass, s |-> Refresh]]
    /\ UNCHANGED <<app_state, disk, ret, sys, attempts, lock, os, call, gpu_vars>>

RaceLock(t) ==
    /\ threads[t].pc = "waiting"
    /\ MutexAvailable
    /\ lock' = t
    /\ app_state' = State
    /\ threads' = [threads EXCEPT ![t] =
           [ pc       |-> "loop",
             op       |-> Pass,
             s        |-> threads[t].s,
             info     |-> blacklist_info(Blacklist),
             k        |-> 1,
             new_logs |-> <<>>,
             attempts |-> <<>>,
             stale    |-> {} ]]
    /\ UNCHANGED <<disk, ret, sys, attempts, os, call, gpu_vars>>

\* one iteration of the loop; `gone` is what terminating a process that has
\* left the table returns
RaceStep(t) ==
    /\ threads[t].pc = "loop"
    /\ threads[t].k <= Len(threads[t].s.processes)
    /\ \E gone \in BOOLEAN :
        LET th    == threads[t]
            p     == th.s.processes[th.k]
            now_p == IF p \in os THEN p
                     ELSE [p EXCEPT !.term = "unsupported", !.kill = gone]
            s_now == [th.s EXCEPT !.processes[th.k] = now_p]
            r     == ProcessStep(
                         [ blacklist     |-> app_state.blacklist,
                           activity_logs |-> app_state.activity_logs,
                           new_logs      |-> th.new_logs,
                           attempts      |-> th.attempts ],
                         th.info, s_now, 1, th.k)
            tried == Len(r.attempts) > Len(th.attempts)
        IN  /\ app_state' = [ blacklist     |-> r.blacklist,
                              activity_logs |-> r.activity_logs ]
            /\ os' = IF tried /\ r.attempts[Len(r.attempts)].killed
                     THEN os \ {p} ELSE os
            /\ threads' = [threads EXCEPT
                   ![t].k = @ + 1,
                   ![t].new_logs = r.new_logs,
                   ![t].attempts = r.attempts,
                   ![t].stale = IF tried /\ p \notin os THEN @ \cup {p.pid} ELSE @]
    /\ UNCHANGED <<disk, ret, sys, attempts, lock, call, gpu_vars>>

RaceEnd(t) ==
    /\ threads[t].pc = "loop"
    /\ threads[t].k > Len(threads[t].s.processes)
    /\ with_state([app_state EXCEPT !.activity_logs = KeepLast(@)],
                  Ok(Pass, threads[t].new_logs),
                  TRUE)
    /\ sys' = threads[t].s
    /\ attempts' = threads[t].attempts
    /\ threads' = [threads EXCEPT ![t].pc = "return"]
    /\ UNCHANGED <<lock, os, call, gpu_vars>>

NextRace ==
    \/ RaceAdd
    \/ RaceClear
    \/ \E t \in Threads :
        \/ RaceCall(t)
        \/ RaceLock(t)
        \/ RaceStep(t)
        \/ RaceEnd(t)
        \/ Unlock(t)

SpecRace == Init /\ [][NextRace]_vars

(***************************************************************************)
(* Properties of concurrent enforcement passes                             *)
(***************************************************************************)

\* the pids of the processes that were ever alive
EverAlive == { p.pid : p \in LiveProcesses }

\* C19: whatever passes run on whatever threads, a process is recorded as
\* killed at most once: the kill_counts add up to no more than the number of
\* processes there have been, the log holds at most one entry with
\* was_killed for a process, and no pass attempts to terminate a process that
\* has already been terminated.
C19_KilledOnce ==
    /\ SumOver(KillCounts(Blacklist), DOMAIN Blacklist) <= Cardinality(EverAlive)
    /\ \A pid \in EverAlive :
          Cardinality({ k \in DOMAIN ActivityLogs :
                          ActivityLogs[k].pid = pid /\ ActivityLogs[k].was_killed }) <= 1
    /\ \A t \in Threads :
          threads[t].pc \in {"loop", "return"} => threads[t].stale = {}

(***************************************************************************)
(* Passes over a blacklist of two rules and a log that fills up            *)
(***************************************************************************)

OtherRuleName == <<"b">>

FrameAdd == Sequential /\ add_to_blacklist(OtherRuleName, TRUE, 50, 1, TRUE)

NextFrame ==
    \/ LogAdd
    \/ FrameAdd
    \/ LogToggleAutoKill
    \/ LogPass

SpecFrame == Init /\ [][NextFrame]_vars

\* an entry without its kill_count
Rule(e) == [e EXCEPT !.kill_count = 0]

\* C20: a pass leaves the blacklist with the same entries in the same order,
\* each with the name, auto_kill, cpu_threshold, log_enabled and created_at
\* it had; and it leaves the entries the log held where they were relative to
\* each other and unchanged, after dropping some from the front: the log it
\* leaves starts with the entries of the old log that were not dropped.
C20_PassFrame ==
    [][ ret'.op = Pass =>
          LET old     == ActivityLogs
              new     == ActivityLogs'
              dropped == Len(old) + Len(ret'.value) - Len(new)
              d       == IF dropped > Len(old) THEN Len(old) ELSE dropped
          IN  /\ Len(Blacklist') = Len(Blacklist)
              /\ \A j \in DOMAIN Blacklist : Rule(Blacklist'[j]) = Rule(Blacklist[j])
              /\ dropped >= 0
              /\ Len(new) >= Len(old) - d
              /\ \A i \in (d + 1)..Len(old) : new[i - d] = old[i]
      ]_vars

\* a pass over one process terminated it under the second of two rules and
\* appended its entry to a full log, which lost its oldest entry
C20_Witness ==
    /\ ret.op = Pass
    /\ Len(ret.value) = 1
    /\ ret.value[1].was_killed
    /\ Len(Blacklist) = 2
    /\ Blacklist[2].kill_count = 1
    /\ Len(ActivityLogs) = LogCap
    /\ ActivityLogs[1].pid = 3
    /\ ActivityLogs[LogCap] = ret.value[1]

(***************************************************************************)
(* Names of the rules that an enforcement pass applies                     *)
(***************************************************************************)

\* the process of the last snapshot that has this pid
ProcessOf(pid) ==
    CHOOSE p \in { sys.processes[k] : k \in DOMAIN sys.processes } : p.pid = pid

\* C21: from an empty AppState, no blacklist entry has an empty or
\* whitespace-only name, and an enforcement pass attempts to terminate a
\* process only if some entry with auto_kill set has a non-empty name that is
\* a substring of the process's name when case is ignored.
C21_NoEmptyRule ==
    /\ \A j \in DOMAIN BlacklistOf(app_state) :
          /\ BlacklistOf(app_state)[j].name # <<>>
          /\ trim(BlacklistOf(app_state)[j].name) # <<>>
    /\ ret.op = Pass =>
          \A k \in DOMAIN attempts :
              \E j \in DOMAIN Blacklist :
                  /\ Blacklist[j].auto_kill
                  /\ Blacklist[j].name # <<>>
                  /\ contains(to_lowercase(ProcessOf(attempts[k].pid).name),
                              to_lowercase(Blacklist[j].name))

\* a pass attempted to terminate "Ab" under the rule "a" while the blacklist
\* also holds "calculator", which "Ab" does not contain
C21_Witness ==
    /\ ret.op = Pass
    /\ Len(attempts) = 1
    /\ attempts[1].pid = 5
    /\ Len(Blacklist) = 2
    /\ \E j \in DOMAIN Blacklist : Blacklist[j].name = <<"a">> /\ Blacklist[j].auto_kill
    /\ \E j \in DOMAIN Blacklist :
          /\ Blacklist[j].name = <<"c","a","l","c","u","l","a","t","o","r">>
          /\ ~contains(to_lowercase(ProcessOf(5).name), Blacklist[j].name)

\* C22: when add_to_blacklist(n, ...) has succeeded, the command that follows
\* it immediately addresses the new entry by the same argument n:
\* remove_from_blacklist(n), toggle_auto_kill(n), toggle_blacklist_log(n) and
\* set_cpu_threshold(n, t) succeed, and the remove leaves the blacklist as it
\* was before the add.
C22_RoundTrip ==
    [][ (/\ call.op = "add_to_blacklist"
         /\ ret.ok
         /\ call'.op \in LookupOps
         /\ call'.name = call.name) =>
          /\ ret'.ok
          /\ call'.op = "remove_from_blacklist" =>
                Blacklist' = SubSeq(Blacklist, 1, Len(Blacklist) - 1)
      ]_vars

====
